---- MODULE Spec2Model ----
(***************************************************************************)
(* Model of the two audio scripts of the repository:                       *)
(*   analise_freq.py         analisar_audio_fft                            *)
(*   analise_freq_filtro.py  butter_bandstop, apply_bandstop_filter,       *)
(*                           analisar_e_filtrar_audio                      *)
(*                                                                         *)
(* Numbers.  Time-domain samples, normalised cutoffs and frequency bins    *)
(* are exact rationals <<n, d>> (reduced, d > 0).  The transform works in  *)
(* fixed point with FixScale units per 1.0 (the code works in floating     *)
(* point; both round), and np.abs is the rounded-down square root.         *)
(*                                                                         *)
(* Library calls are modelled by what the library does: np.fft.fft is the  *)
(* discrete Fourier transform and rejects zero points, np.fft.fftfreq      *)
(* lays the bins out as 0, 1, .., (n-1)//2, -(n//2), .., -1 times sr/n,    *)
(* scipy.signal.butter validates 0 < Wn[0] < Wn[1] < 1 and returns two     *)
(* vectors of 2*order+1 coefficients with a[0] = 1, scipy.signal.lfilter   *)
(* runs the direct-form difference equation from a zero state.  The real   *)
(* values of the Butterworth coefficients are not computed: the design     *)
(* step admits any vector of a small set of the designed length.           *)
(***************************************************************************)
EXTENDS Integers, Sequences, FiniteSets, TLC

VARIABLES
    script,             \* which entry point runs: "analise_freq", "analise_freq_filtro", or "call"
    pc,                 \* position of the run
    file,               \* the environment: the input file and the output path
    y_original,         \* samples returned by librosa.load
    sr,                 \* sample rate returned by librosa.load (0 = not loaded)
    spectrum_original,  \* xf_primeira_metade / magnitude_espectro of the loaded signal
    design,             \* arguments butter_bandstop was entered with
    y_filtered,         \* result of apply_bandstop_filter
    spectrum_filtered,  \* spectrum of the filtered signal
    out_file,           \* what sf.write put on disk
    log,                \* the lines printed so far
    raised,             \* exception that left the function ("none" when none did)
    call,               \* a direct call of one of the pure functions, with its arguments
    ret                 \* what that call returned or raised

vars == <<script, pc, file, y_original, sr, spectrum_original, design, y_filtered,
          spectrum_filtered, out_file, log, raised, call, ret>>

----------------------------------------------------------------------------
(* Bounds of the model *)

MaxN == 3          \* longest signal stored in an input file
MaxOrder == 2      \* highest filter order of a direct call
FixScale == 100    \* fixed-point units per 1.0 in the transform
Taps == 2          \* leading coefficients of b and a that vary

----------------------------------------------------------------------------
(* Exact rationals *)

RECURSIVE GCD(_, _)
GCD(m, n) == IF n = 0 THEN m ELSE GCD(n, m % n)

Abs(i) == IF i < 0 THEN -i ELSE i

Frac(n, d) ==
    LET s == IF d < 0 THEN -1 ELSE 1
        g == GCD(Abs(n), Abs(d))
    IN  <<(s * n) \div g, (s * d) \div g>>

RZero == <<0, 1>>
ROne == <<1, 1>>
RInt(i) == <<i, 1>>
RAdd(p, q) == Frac(p[1] * q[2] + q[1] * p[2], p[2] * q[2])
RSub(p, q) == Frac(p[1] * q[2] - q[1] * p[2], p[2] * q[2])
RMul(p, q) == Frac(p[1] * q[1], p[2] * q[2])
RDiv(p, q) == Frac(p[1] * q[2], p[2] * q[1])
RAbs(p) == <<Abs(p[1]), p[2]>>
RLt(p, q) == p[1] * q[2] < q[1] * p[2]
RLe(p, q) == p[1] * q[2] <= q[1] * p[2]

RECURSIVE SeqsUpTo(_, _)
SeqsUpTo(S, n) ==
    IF n = 0 THEN {<<>>}
    ELSE LET shorter == SeqsUpTo(S, n - 1)
         IN  shorter \cup {Append(s, v) : s \in {t \in shorter : Len(t) = n - 1}, v \in S}

----------------------------------------------------------------------------
(* Fixed-point arithmetic of the transform *)

Fix(r) == (r[1] * FixScale) \div r[2]

PiFix == (355 * FixScale) \div 113

RECURSIVE ISqrtIn(_, _, _)
ISqrtIn(n, lo, hi) ==
    IF lo >= hi THEN lo
    ELSE LET mid == (lo + hi + 1) \div 2
         IN  IF mid <= n \div mid THEN ISqrtIn(n, mid, hi) ELSE ISqrtIn(n, lo, mid - 1)

ISqrt(n) == ISqrtIn(n, 0, n)

\* cos x for 0 <= x <= pi/2 (x in fixed point), by its Taylor series
RECURSIVE CosSeries(_, _, _)
CosSeries(x, term, k) ==
    IF k > 5 \/ term = 0 THEN 0
    ELSE term + CosSeries(x, -((((term * x) \div FixScale) * x) \div FixScale)
                                 \div ((2 * k + 1) * (2 * k + 2)), k + 1)

\* cos(2*pi*p/q) in fixed point, q > 0, any integer p
RECURSIVE Cos(_, _)
Cos(p, q) ==
    LET r == p % q
    IN  IF 2 * r > q THEN Cos(q - r, q)
        ELSE IF 4 * r > q THEN -Cos(q - 2 * r, 2 * q)
        ELSE IF 4 * r = q THEN 0
        ELSE CosSeries((2 * PiFix * r) \div q, FixScale, 0)

\* sin(2*pi*p/q) = cos(2*pi*(p/q - 1/4))
Sin(p, q) == Cos(4 * p - q, 4 * q)

RECURSIVE SumTo(_, _)
SumTo(f, n) == IF n = 0 THEN 0 ELSE f[n] + SumTo(f, n - 1)

----------------------------------------------------------------------------
(* numpy *)

\* np.arange(lo, hi)
arange(lo, hi) == IF hi > lo THEN [i \in 1..(hi - lo) |-> lo + i - 1] ELSE <<>>

\* a[idx] for an index array idx (0-based indices into the sequence a)
take(a, idx) == [i \in 1..Len(idx) |-> a[idx[i] + 1]]

\* fft without numpy's rejection of zero points
fft_accepts_empty(y) ==
    LET N == Len(y)
        re(k) == SumTo([n \in 1..N |-> (Fix(y[n]) * Cos(k * (n - 1), N)) \div FixScale], N)
        im(k) == -SumTo([n \in 1..N |-> (Fix(y[n]) * Sin(k * (n - 1), N)) \div FixScale], N)
    IN  [err |-> "none", value |-> [k \in 1..N |-> <<re(k - 1), im(k - 1)>>]]

\* np.fft.fft(y): X[k] = sum_n y[n] * exp(-2*pi*i*k*n/N); zero points are rejected
fft(y) ==
    LET N == Len(y)
        re(k) == SumTo([n \in 1..N |-> (Fix(y[n]) * Cos(k * (n - 1), N)) \div FixScale], N)
        im(k) == -SumTo([n \in 1..N |-> (Fix(y[n]) * Sin(k * (n - 1), N)) \div FixScale], N)
    IN  IF N = 0 THEN [err |-> "ValueError", value |-> <<>>]
        ELSE [err |-> "none", value |-> [k \in 1..N |-> <<re(k - 1), im(k - 1)>>]]

\* np.fft.fftfreq(n, d): [0, 1, .., (n-1)//2, -(n//2), .., -1] / (d*n)
fftfreq(n, d) ==
    LET val == RDiv(ROne, RMul(RInt(n), d))
    IN  [k \in 1..n |-> IF k - 1 <= (n - 1) \div 2
                        THEN RMul(RInt(k - 1), val)
                        ELSE RMul(RInt(k - 1 - n), val)]

\* np.abs of a complex value
np_abs(z) == ISqrt(z[1] * z[1] + z[2] * z[2])

----------------------------------------------------------------------------
(* The single-sided spectrum: analise_freq_filtro.py 53-60, repeated at     *)
(* 84-91 and in analise_freq.py 38-52                                       *)

\* the index range started at the DC term
primeira_metade_indices_from_zero(N) == arange(0, N \div 2 + 1)

primeira_metade_indices(N) == arange(1, N \div 2 + 1)

magnitude_espectro(yf, idx, N) ==
    [i \in 1..Len(idx) |-> (2 * np_abs(take(yf, idx)[i])) \div N]

NoSpectrum == [computed |-> FALSE, N |-> 0, indices |-> <<>>, xf |-> <<>>, magnitude |-> <<>>]

\* the spectrum of y at rate fs, or the exception the transform raises
espectro(y, fs) ==
    LET N == Len(y)
        yf == fft(y)
        idx == primeira_metade_indices(N)
    IN  IF yf.err # "none" THEN [err |-> yf.err, spectrum |-> NoSpectrum]
        ELSE [err |-> "none",
              spectrum |-> [computed |-> TRUE, N |-> N, indices |-> idx,
                            xf |-> take(fftfreq(N, <<1, fs>>), idx),
                            magnitude |-> magnitude_espectro(yf.value, idx, N)]]

----------------------------------------------------------------------------
(* scipy.signal and the filter functions of analise_freq_filtro.py *)

CoefVals == {-1, 0, 1}

\* the coefficient pairs <<b, a>> a band-stop design of this order may return:
\* 2*order+1 entries each, a[0] = 1, b symmetric at its ends
Coefficients(order) ==
    LET len == 2 * order + 1
        lead == IF Taps < len THEN Taps ELSE len
    IN  { << [i \in 1..len |-> IF i <= lead THEN bl[i] ELSE bl[1]],
             [i \in 1..len |-> IF i = 1 THEN 1 ELSE IF i <= lead THEN al[i] ELSE 0] >> :
            bl \in [1..lead -> CoefVals], al \in [1..lead -> CoefVals] }

\* scipy.signal.butter(order, [low, high], btype='bandstop'): the critical
\* frequencies must satisfy 0 < low < high < 1, else ValueError
butter(order, Wn) ==
    IF RLe(Wn[1], RZero) \/ RLe(Wn[2], RZero) \/ ~RLt(Wn[1], Wn[2])
       \/ RLe(ROne, Wn[1]) \/ RLe(ROne, Wn[2])
    THEN [err |-> "ValueError", ba |-> {}]
    ELSE [err |-> "none", ba |-> Coefficients(order)]

\* cutoffs normalised by the sample rate instead of the Nyquist frequency
butter_bandstop_by_fs(lowcut, highcut, fs, order) ==
    butter(order, <<Frac(lowcut, fs), Frac(highcut, fs)>>)

butter_bandstop(lowcut, highcut, fs, order) ==
    LET nyquist == Frac(fs, 2)
        low == RDiv(RInt(lowcut), nyquist)
        high == RDiv(RInt(highcut), nyquist)
    IN  butter(order, <<low, high>>)

\* scipy.signal.lfilter(b, a, x):
\* a[0]*y[n] = b[0]*x[n] + .. + b[M]*x[n-M] - a[1]*y[n-1] - .. - a[M]*y[n-M]
RECURSIVE FeedForward(_, _, _, _)
FeedForward(b, x, n, k) ==
    IF k > Len(b) \/ k > n THEN RZero
    ELSE RAdd(RMul(RInt(b[k]), x[n - k + 1]), FeedForward(b, x, n, k + 1))

RECURSIVE FeedBack(_, _, _, _)
FeedBack(a, y, n, k) ==
    IF k > Len(a) \/ k > n THEN RZero
    ELSE RAdd(RMul(RInt(a[k]), y[n - k + 1]), FeedBack(a, y, n, k + 1))

RECURSIVE lfilterFrom(_, _, _, _)
lfilterFrom(b, a, x, y) ==
    IF Len(y) >= Len(x) THEN y
    ELSE LET n == Len(y) + 1
             yn == RDiv(RSub(FeedForward(b, x, n, 1), FeedBack(a, y, n, 2)), RInt(a[1]))
         IN  lfilterFrom(b, a, x, Append(y, yn))

\* a filter that drops the first output sample
lfilter_drops_first(b, a, x) ==
    LET y == lfilterFrom(b, a, x, <<>>) IN SubSeq(y, 2, Len(y))

lfilter(b, a, x) == lfilterFrom(b, a, x, <<>>)

\* the exception of the design, or every signal the filter may return
apply_bandstop_filter(data, lowcut, highcut, fs, order) ==
    LET d == butter_bandstop(lowcut, highcut, fs, order)
    IN  IF d.err # "none" THEN [err |-> d.err, values |-> {}]
        ELSE [err |-> "none", values |-> {lfilter(ba[1], ba[2], data) : ba \in d.ba}]

----------------------------------------------------------------------------
(* Normalisation before saving, analise_freq_filtro.py 113 *)

RECURSIVE PeakFrom(_, _)
PeakFrom(y, n) ==
    IF n = 1 THEN RAbs(y[1])
    ELSE LET rest == PeakFrom(y, n - 1)
         IN  IF RLt(rest, RAbs(y[n])) THEN RAbs(y[n]) ELSE rest

\* np.max(np.abs(y)); np.max of an empty array raises ValueError
peak(y) == PeakFrom(y, Len(y))

\* unconditional normalisation: divide by the peak whenever there is one
y_filtered_normalized_always(y) ==
    IF Len(y) = 0 THEN [err |-> "ValueError", value |-> <<>>]
    ELSE IF RLt(RZero, peak(y))
         THEN [err |-> "none", value |-> [i \in 1..Len(y) |-> RDiv(y[i], peak(y))]]
         ELSE [err |-> "none", value |-> y]

y_filtered_normalized(y) ==
    IF Len(y) = 0 THEN [err |-> "ValueError", value |-> <<>>]
    ELSE IF RLt(ROne, peak(y))
         THEN [err |-> "none", value |-> [i \in 1..Len(y) |-> RDiv(y[i], peak(y))]]
         ELSE [err |-> "none", value |-> y]

----------------------------------------------------------------------------
(* librosa.load *)

DefaultSR == 22050

\* librosa.resample: ceil(len * target / orig) samples.  The interpolated
\* values are not computed; each output sample holds the input sample under it.
resample(y, orig_sr, target_sr) ==
    IF orig_sr = target_sr THEN y
    ELSE LET n == (Len(y) * target_sr + orig_sr - 1) \div orig_sr
         IN  [i \in 1..n |-> y[((i - 1) * orig_sr) \div target_sr + 1]]

----------------------------------------------------------------------------
(* The environment and the initial state *)

SampleVals == {<<-1, 1>>, <<0, 1>>, <<1, 2>>}
SampleRates == {8000, 22050, 44100}

Files == [exists : BOOLEAN, decodable : BOOLEAN, native_sr : SampleRates,
          samples : SeqsUpTo(SampleVals, MaxN), writable : BOOLEAN]

NoDesign == [lowcut |-> 0, highcut |-> 0, fs |-> 0, order |-> 0]
NoOutput == [written |-> FALSE, data |-> <<>>, samplerate |-> 0]
NoCall == [fn |-> "none", data |-> <<>>, lowcut |-> 0, highcut |-> 0, fs |-> 0, order |-> 0]
NoRet == [returned |-> FALSE, err |-> "none", ba |-> <<>>, value |-> <<>>]

InitRun ==
    /\ pc = "start"
    /\ y_original = <<>>
    /\ sr = 0
    /\ spectrum_original = NoSpectrum
    /\ design = NoDesign
    /\ y_filtered = <<>>
    /\ spectrum_filtered = NoSpectrum
    /\ out_file = NoOutput
    /\ log = <<>>
    /\ raised = "none"
    /\ ret = NoRet

Init ==
    /\ script \in {"analise_freq", "analise_freq_filtro"}
    /\ file \in Files
    /\ call = NoCall
    /\ InitRun

print(lines) == log' = log \o lines

----------------------------------------------------------------------------
(* analisar_e_filtrar_audio, analise_freq_filtro.py 30-122 *)

lowcut_vocal == 300
highcut_vocal == 5000
filter_order == 8

\* 36-41: the existence check
Filtrar_Exists ==
    /\ script = "analise_freq_filtro" /\ pc = "start"
    /\ IF ~file.exists
       THEN /\ print(<<"Erro: O arquivo nao foi encontrado.", "Por favor, verifique o caminho">>)
            /\ pc' = "returned"
       ELSE /\ print(<<"Carregando o arquivo de audio">>)
            /\ pc' = "load"
    /\ UNCHANGED <<script, file, y_original, sr, spectrum_original, design, y_filtered,
                   spectrum_filtered, out_file, raised, call, ret>>

\* the load called without sr=None, as analise_freq.py calls it
Filtrar_Load_default_rate ==
    /\ script = "analise_freq_filtro" /\ pc = "load"
    /\ IF file.decodable
       THEN /\ y_original' = resample(file.samples, file.native_sr, DefaultSR)
            /\ sr' = DefaultSR
            /\ print(<<"Audio carregado com sucesso.">>)
            /\ pc' = "fft_original"
       ELSE /\ print(<<"Erro ao carregar o arquivo de audio", "Certifique-se de que o arquivo">>)
            /\ pc' = "returned"
            /\ UNCHANGED <<y_original, sr>>
    /\ UNCHANGED <<script, file, spectrum_original, design, y_filtered,
                   spectrum_filtered, out_file, raised, call, ret>>

\* the load with its error branch falling through instead of returning
Filtrar_Load_no_return ==
    /\ script = "analise_freq_filtro" /\ pc = "load"
    /\ IF file.decodable
       THEN /\ y_original' = file.samples
            /\ sr' = file.native_sr
            /\ print(<<"Audio carregado com sucesso.">>)
       ELSE /\ print(<<"Erro ao carregar o arquivo de audio", "Certifique-se de que o arquivo">>)
            /\ UNCHANGED <<y_original, sr>>
    /\ pc' = "fft_original"
    /\ UNCHANGED <<script, file, spectrum_original, design, y_filtered,
                   spectrum_filtered, out_file, raised, call, ret>>

\* 42-49: librosa.load(path, sr=None) keeps the file's own rate
Filtrar_Load ==
    /\ script = "analise_freq_filtro" /\ pc = "load"
    /\ IF file.decodable
       THEN /\ y_original' = file.samples
            /\ sr' = file.native_sr
            /\ print(<<"Audio carregado com sucesso.">>)
            /\ pc' = "fft_original"
       ELSE /\ print(<<"Erro ao carregar o arquivo de audio", "Certifique-se de que o arquivo">>)
            /\ pc' = "returned"
            /\ UNCHANGED <<y_original, sr>>
    /\ UNCHANGED <<script, file, spectrum_original, design, y_filtered,
                   spectrum_filtered, out_file, raised, call, ret>>

\* 52-71: spectrum of the loaded signal (and its plot)
Filtrar_FFTOriginal ==
    /\ script = "analise_freq_filtro" /\ pc = "fft_original"
    /\ print(<<"Calculando e plotando FFT do audio original">>)
    /\ LET e == espectro(y_original, sr)
       IN  IF e.err # "none"
           THEN /\ raised' = e.err
                /\ pc' = "raised"
                /\ UNCHANGED spectrum_original
           ELSE /\ spectrum_original' = e.spectrum
                /\ pc' = "filter"
                /\ UNCHANGED raised
    /\ UNCHANGED <<script, file, y_original, sr, design, y_filtered,
                   spectrum_filtered, out_file, call, ret>>

\* 74-80: design and application of the band-stop filter
Filtrar_ApplyFilter ==
    /\ script = "analise_freq_filtro" /\ pc = "filter"
    /\ print(<<"Aplicando filtro para atenuar frequencias vocais">>)
    /\ design' = [lowcut |-> lowcut_vocal, highcut |-> highcut_vocal, fs |-> sr,
                  order |-> filter_order]
    /\ LET r == apply_bandstop_filter(y_original, lowcut_vocal, highcut_vocal, sr, filter_order)
       IN  IF r.err # "none"
           THEN /\ raised' = r.err
                /\ pc' = "raised"
                /\ UNCHANGED y_filtered
           ELSE /\ y_filtered' \in r.values
                /\ pc' = "fft_filtered"
                /\ UNCHANGED raised
    /\ UNCHANGED <<script, file, y_original, sr, spectrum_original,
                   spectrum_filtered, out_file, call, ret>>

\* 83-103: spectrum of the filtered signal (and the plots)
Filtrar_FFTFiltered ==
    /\ script = "analise_freq_filtro" /\ pc = "fft_filtered"
    /\ print(<<"Calculando e plotando FFT do audio filtrado">>)
    /\ LET e == espectro(y_filtered, sr)
       IN  IF e.err # "none"
           THEN /\ raised' = e.err
                /\ pc' = "raised"
                /\ UNCHANGED spectrum_filtered
           ELSE /\ spectrum_filtered' = e.spectrum
                /\ pc' = "save"
                /\ UNCHANGED raised
    /\ UNCHANGED <<script, file, y_original, sr, spectrum_original, design, y_filtered,
                   out_file, call, ret>>

\* the save without its try/except: a failed write leaves the function
Filtrar_Save_uncaught ==
    /\ script = "analise_freq_filtro" /\ pc = "save"
    /\ LET n == y_filtered_normalized(y_filtered)
       IN  IF n.err = "none" /\ file.writable
           THEN /\ out_file' = [written |-> TRUE, data |-> n.value, samplerate |-> sr]
                /\ print(<<"Salvando audio filtrado", "Audio filtrado salvo com sucesso!",
                           "Analise e filtragem concluidas.">>)
                /\ pc' = "done"
                /\ UNCHANGED raised
           ELSE /\ UNCHANGED out_file
                /\ print(<<"Salvando audio filtrado">>)
                /\ pc' = "raised"
                /\ raised' = IF n.err # "none" THEN n.err ELSE "IOError"
    /\ UNCHANGED <<script, file, y_original, sr, spectrum_original, design, y_filtered,
                   spectrum_filtered, call, ret>>

\* 106-122: normalise, write, report; any exception of the try block is printed
Filtrar_Save ==
    /\ script = "analise_freq_filtro" /\ pc = "save"
    /\ LET n == y_filtered_normalized(y_filtered)
       IN  IF n.err = "none" /\ file.writable
           THEN /\ out_file' = [written |-> TRUE, data |-> n.value, samplerate |-> sr]
                /\ print(<<"Salvando audio filtrado", "Audio filtrado salvo com sucesso!",
                           "Analise e filtragem concluidas.">>)
           ELSE /\ UNCHANGED out_file
                /\ print(<<"Salvando audio filtrado", "Erro ao salvar o audio filtrado",
                           "Certifique-se de que a biblioteca 'soundfile' esta instalada",
                           "Analise e filtragem concluidas.">>)
    /\ pc' = "done"
    /\ UNCHANGED <<script, file, y_original, sr, spectrum_original, design, y_filtered,
                   spectrum_filtered, raised, call, ret>>

----------------------------------------------------------------------------
(* analisar_audio_fft, analise_freq.py 7-70 *)

\* 16-22: the existence check
Fft_Exists ==
    /\ script = "analise_freq" /\ pc = "start"
    /\ IF ~file.exists
       THEN /\ print(<<"Erro: O arquivo nao foi encontrado.", "Por favor, verifique o caminho">>)
            /\ pc' = "returned"
       ELSE /\ print(<<"Carregando o arquivo de audio">>)
            /\ pc' = "load"
    /\ UNCHANGED <<script, file, y_original, sr, spectrum_original, design, y_filtered,
                   spectrum_filtered, out_file, raised, call, ret>>

\* 23-31: librosa.load(path) resamples to its default rate.  Whether the
\* resampler accepts an empty signal depends on the resampling backend:
\* both outcomes are admitted.
Fft_Load ==
    /\ script = "analise_freq" /\ pc = "load"
    /\ \E accepts_empty \in BOOLEAN :
         IF file.decodable
            /\ (accepts_empty \/ Len(file.samples) > 0 \/ file.native_sr = DefaultSR)
         THEN /\ y_original' = resample(file.samples, file.native_sr, DefaultSR)
              /\ sr' = DefaultSR
              /\ print(<<"Audio carregado com sucesso.">>)
              /\ pc' = "fft"
         ELSE /\ print(<<"Erro ao carregar o arquivo de audio", "Certifique-se de que o arquivo">>)
              /\ pc' = "returned"
              /\ UNCHANGED <<y_original, sr>>
    /\ UNCHANGED <<script, file, spectrum_original, design, y_filtered,
                   spectrum_filtered, out_file, raised, call, ret>>

\* 37-70: the spectrum and its plot
Fft_Spectrum ==
    /\ script = "analise_freq" /\ pc = "fft"
    /\ LET e == espectro(y_original, sr)
       IN  IF e.err # "none"
           THEN /\ raised' = e.err
                /\ pc' = "raised"
                /\ print(<<"Calculando a FFT...">>)
                /\ UNCHANGED spectrum_original
           ELSE /\ spectrum_original' = e.spectrum
                /\ pc' = "done"
                /\ print(<<"Calculando a FFT...", "Gerando o grafico do espectro de frequencia",
                           "Analise de FFT concluida.">>)
                /\ UNCHANGED raised
    /\ UNCHANGED <<script, file, y_original, sr, design, y_filtered,
                   spectrum_filtered, out_file, call, ret>>

Next ==
    \/ Filtrar_Exists
    \/ Filtrar_Load
    \/ Filtrar_FFTOriginal
    \/ Filtrar_ApplyFilter
    \/ Filtrar_FFTFiltered
    \/ Filtrar_Save
    \/ Fft_Exists
    \/ Fft_Load
    \/ Fft_Spectrum

Spec == Init /\ [][Next]_vars

----------------------------------------------------------------------------
(* Direct calls of the pure functions, with arguments drawn from small sets *)

CallSamples == {<<-3, 2>>, <<-1, 1>>, <<0, 1>>, <<1, 2>>, <<1, 1>>}
CallLow == {-300, 0, 300, 5000}
CallHigh == {300, 5000, 11025, 22050}
CallRates == {8000, 22050, 44100}

Calls ==
    [fn : {"butter_bandstop"}, data : {<<>>}, lowcut : CallLow, highcut : CallHigh,
     fs : CallRates, order : 1..MaxOrder]
    \cup
    [fn : {"apply_bandstop_filter"}, data : SeqsUpTo({<<-1, 1>>, <<1, 2>>}, MaxN) \ {<<>>},
     lowcut : CallLow, highcut : CallHigh, fs : CallRates, order : 1..MaxOrder]
    \cup
    [fn : {"y_filtered_normalized"}, data : SeqsUpTo(CallSamples, MaxN),
     lowcut : {0}, highcut : {0}, fs : {0}, order : {0}]

InitFn ==
    /\ script = "call"
    /\ file = [exists |-> FALSE, decodable |-> FALSE, native_sr |-> 8000, samples |-> <<>>,
               writable |-> FALSE]
    /\ call \in Calls
    /\ InitRun

UnchangedRun ==
    UNCHANGED <<script, file, y_original, sr, spectrum_original, design, y_filtered,
                spectrum_filtered, out_file, log, raised, call>>

Call_butter_bandstop ==
    /\ script = "call" /\ pc = "start" /\ call.fn = "butter_bandstop"
    /\ LET d == butter_bandstop(call.lowcut, call.highcut, call.fs, call.order)
       IN  IF d.err # "none"
           THEN ret' = [returned |-> FALSE, err |-> d.err, ba |-> <<>>, value |-> <<>>]
           ELSE \E ba \in d.ba :
                    ret' = [returned |-> TRUE, err |-> "none", ba |-> ba, value |-> <<>>]
    /\ pc' = "done"
    /\ UnchangedRun

Call_apply_bandstop_filter ==
    /\ script = "call" /\ pc = "start" /\ call.fn = "apply_bandstop_filter"
    /\ LET r == apply_bandstop_filter(call.data, call.lowcut, call.highcut, call.fs, call.order)
       IN  IF r.err # "none"
           THEN ret' = [returned |-> FALSE, err |-> r.err, ba |-> <<>>, value |-> <<>>]
           ELSE \E y \in r.values :
                    ret' = [returned |-> TRUE, err |-> "none", ba |-> <<>>, value |-> y]
    /\ pc' = "done"
    /\ UnchangedRun

Call_y_filtered_normalized ==
    /\ script = "call" /\ pc = "start" /\ call.fn = "y_filtered_normalized"
    /\ LET n == y_filtered_normalized(call.data)
       IN  ret' = [returned |-> n.err = "none", err |-> n.err, ba |-> <<>>, value |-> n.value]
    /\ pc' = "done"
    /\ UnchangedRun

NextFn ==
    \/ Call_butter_bandstop
    \/ Call_apply_bandstop_filter
    \/ Call_y_filtered_normalized

SpecFn == InitFn /\ [][NextFn]_vars

\* runs of the scripts and direct calls together
InitAll == Init \/ InitFn

NextAll == Next \/ NextFn

SpecAll == InitAll /\ [][NextAll]_vars

----------------------------------------------------------------------------
(* Properties *)

Spectra == {spectrum_original, spectrum_filtered}

Printed(line) == \E i \in 1..Len(log) : log[i] = line

NothingProduced ==
    /\ ~spectrum_original.computed
    /\ ~spectrum_filtered.computed
    /\ design = NoDesign
    /\ y_filtered = <<>>
    /\ ~out_file.written

\* C1: whenever a spectrum has been computed from N samples at rate sr, its
\* frequency sequence is strictly increasing and its i-th value is i*sr/N for
\* every i in 1..N div 2, the last bin of an even N included.
C1_FrequenciesIncreasing ==
    \A S \in Spectra :
        S.computed =>
            /\ Len(S.xf) = S.N \div 2
            /\ \A i \in 1..Len(S.xf) : S.xf[i] = Frac(i * sr, S.N)
            /\ \A i \in 1..(Len(S.xf) - 1) : RLt(S.xf[i], S.xf[i + 1])

\* C2: a computed spectrum of N samples has magnitude and frequency sequences
\* of one length, N/2 for even N and (N-1)/2 for odd N; transform index 0 is
\* not among its bins; every magnitude is non-negative.
C2_SpectrumShape ==
    /\ spectrum_original.computed => spectrum_original.N = Len(y_original)
    /\ spectrum_filtered.computed => spectrum_filtered.N = Len(y_filtered)
    /\ \A S \in Spectra :
        S.computed =>
            /\ Len(S.magnitude) = Len(S.xf)
            /\ Len(S.indices) = Len(S.xf)
            /\ IF S.N % 2 = 0 THEN 2 * Len(S.magnitude) = S.N
                              ELSE 2 * Len(S.magnitude) = S.N - 1
            /\ \A i \in 1..Len(S.indices) : S.indices[i] # 0
            /\ \A i \in 1..Len(S.magnitude) : S.magnitude[i] >= 0

C2_Witness ==
    /\ spectrum_original.computed /\ spectrum_original.N = 3
    /\ Len(spectrum_original.magnitude) = 1 /\ spectrum_original.magnitude[1] > 0
    /\ spectrum_filtered.computed /\ spectrum_filtered.N = 3

\* C3: a call of butter_bandstop with low >= high, or high >= fs/2, or low <= 0
\* raises and returns no coefficients; a call that returns coefficients had
\* 0 < low/(fs/2) < high/(fs/2) < 1.
C3_DesignRejectsInvalidCutoffs ==
    (pc = "done" /\ call.fn = "butter_bandstop") =>
        /\ (call.lowcut >= call.highcut \/ 2 * call.highcut >= call.fs \/ call.lowcut <= 0)
              => (ret.err = "ValueError" /\ ~ret.returned /\ ret.ba = <<>>)
        /\ ret.returned
              => (/\ 0 < call.lowcut /\ call.lowcut < call.highcut /\ 2 * call.highcut < call.fs
                  /\ ret.err = "none" /\ Len(ret.ba) = 2)

C3_Witness ==
    /\ pc = "done" /\ call.fn = "butter_bandstop"
    /\ call.lowcut = 300 /\ call.highcut = 5000 /\ call.fs = 8000
    /\ ret.err = "ValueError" /\ ~ret.returned

\* C4: when the input path does not exist or the file cannot be decoded, the
\* run prints an error and returns: no spectrum, no filtering, no output file.
C4_LoadFailureProducesNothing ==
    /\ ((~file.exists \/ ~file.decodable) /\ pc \notin {"start", "load"}) => pc = "returned"
    /\ pc = "returned" =>
          /\ NothingProduced
          /\ raised = "none"
          /\ y_original = <<>> /\ sr = 0
          /\ \/ Printed("Erro: O arquivo nao foi encontrado.")
             \/ Printed("Erro ao carregar o arquivo de audio")

C4_Witness ==
    /\ script = "analise_freq_filtro" /\ pc = "returned"
    /\ file.exists /\ ~file.decodable /\ file.writable /\ Len(file.samples) = 3
    /\ Printed("Erro ao carregar o arquivo de audio")

\* out is what the normalisation before saving makes of the non-empty signal y
NormalizedFrom(y, out) ==
    LET above == \E i \in 1..Len(y) : RLt(ROne, RAbs(y[i]))
    IN  /\ Len(out) = Len(y)
        /\ ~above => out = y
        /\ above =>
             /\ \E m \in 1..Len(y) :
                   /\ \A j \in 1..Len(y) : RLe(RAbs(y[j]), RAbs(y[m]))
                   /\ \A i \in 1..Len(y) : out[i] = RDiv(y[i], RAbs(y[m]))
             /\ \E i \in 1..Len(out) : RAbs(out[i]) = ROne
             /\ \A i \in 1..Len(out) : RLe(RAbs(out[i]), ROne)
        /\ y_filtered_normalized(out).value = out

\* C5: the normalisation before saving returns a signal whose peak absolute
\* value is at most 1.0 unchanged, divides every sample of a signal whose peak
\* exceeds 1.0 by that peak so that the result peaks at exactly 1.0, and
\* changes nothing when applied to its own result; the signal written to the
\* output file is the filtered signal normalised so.
C5_Normalization ==
    /\ (pc = "done" /\ call.fn = "y_filtered_normalized" /\ Len(call.data) > 0)
          => (ret.returned /\ NormalizedFrom(call.data, ret.value))
    /\ out_file.written => NormalizedFrom(y_filtered, out_file.data)

C5_Witness ==
    /\ pc = "done" /\ call.fn = "y_filtered_normalized"
    /\ call.data = <<<<1, 2>>, <<-3, 2>>, <<1, 1>>>>
    /\ ret.value = <<<<1, 3>>, <<-1, 1>>, <<2, 3>>>>

\* C6: apply_bandstop_filter, called with a valid filter specification,
\* returns exactly as many samples as it was given; in a filtering run the
\* filtered signal is as long as the loaded one and its spectrum has as many
\* bins as the original spectrum.
C6_FilterKeepsLength ==
    /\ (pc = "done" /\ call.fn = "apply_bandstop_filter" /\ ret.returned)
          => Len(ret.value) = Len(call.data)
    /\ (pc = "done" /\ call.fn = "apply_bandstop_filter" /\ ~ret.returned)
          => ret.value = <<>>
    /\ (script = "analise_freq_filtro" /\ pc \in {"fft_filtered", "save", "done"})
          => Len(y_filtered) = Len(y_original)
    /\ spectrum_filtered.computed
          => Len(spectrum_filtered.magnitude) = Len(spectrum_original.magnitude)

C6_Witness ==
    /\ pc = "done" /\ call.fn = "apply_bandstop_filter" /\ ret.returned
    /\ call.lowcut = 300 /\ call.highcut = 5000 /\ call.fs = 44100
    /\ Len(call.data) = 3 /\ Len(ret.value) = 3
    /\ ret.value # call.data

\* C7: in a filtering run the rate returned by the load is the file's own rate
\* and stays so; the filter is designed at that rate, both spectra are laid
\* out on it, and the output file is written at it.
C7_SampleRatePreserved ==
    script = "analise_freq_filtro" =>
        /\ sr # 0 => sr = file.native_sr
        /\ design # NoDesign => design.fs = file.native_sr
        /\ \A S \in Spectra :
              (S.computed /\ S.N >= 3) => S.xf[1] = Frac(file.native_sr, S.N)
        /\ out_file.written => out_file.samplerate = file.native_sr

C7_Witness ==
    /\ script = "analise_freq_filtro" /\ pc = "done"
    /\ out_file.written /\ out_file.samplerate = 44100 /\ file.native_sr = 44100
    /\ design.fs = 44100 /\ spectrum_filtered.computed /\ spectrum_filtered.N = 3

\* the spectrum stage of the run has been executed
Analysed == spectrum_original.computed \/ raised # "none"

\* C8 as stated: computing the spectrum of a signal of fewer than 2 samples
\* fails with an error and yields no spectrum.
C8_ShortSignalRejected ==
    (Analysed /\ Len(y_original) < 2) =>
        (/\ raised # "none" /\ ~spectrum_original.computed)

\* C8 as amended: the spectrum of an empty signal fails with the ValueError the
\* transform raises, which leaves the function; the spectrum of a one-sample
\* signal does not fail and is empty (no frequency, no magnitude).
C8_ShortSignalAmended ==
    Analysed =>
        /\ Len(y_original) = 0 =>
              (/\ raised = "ValueError" /\ pc = "raised" /\ ~spectrum_original.computed)
        /\ Len(y_original) = 1 =>
              /\ spectrum_original.computed
              /\ spectrum_original.xf = <<>>
              /\ spectrum_original.magnitude = <<>>

C8_Witness ==
    /\ script = "analise_freq" /\ pc = "done" /\ Len(y_original) = 1
    /\ spectrum_original.computed /\ spectrum_original.xf = <<>>

Terminal == {"returned", "raised", "done"}

ErrorPrinted ==
    \/ Printed("Erro: O arquivo nao foi encontrado.")
    \/ Printed("Erro ao carregar o arquivo de audio")
    \/ Printed("Erro ao salvar o audio filtrado")

NothingPrintedTwice == \A i, j \in 1..Len(log) : log[i] = log[j] => i = j

\* C10 as stated: in a filtering run every failure (file missing, decode
\* error, cutoffs invalid for the file's rate, degenerate signal, write
\* failure) is printed and ends the run; no stage runs after it, nothing is
\* retried and no exception leaves the function.
C10_FailuresHandledLocally ==
    script = "analise_freq_filtro" =>
        /\ raised = "none"
        /\ pc # "raised"
        /\ (pc \in Terminal /\ ~out_file.written) => ErrorPrinted
        /\ pc \in Terminal => ~ENABLED Next
        /\ NothingPrintedTwice

\* C10 as amended: a missing file, a decode error and a write failure are
\* printed and end the run without an exception; an empty signal and cutoffs
\* invalid for the file's rate (rate <= 2 * 5000 Hz) raise ValueError, which
\* leaves the function unprinted.  In every case no stage runs after the
\* failure and nothing is retried.
C10_FailuresAmended ==
    script = "analise_freq_filtro" =>
        /\ pc = "returned" =>
              (/\ raised = "none" /\ ErrorPrinted /\ NothingProduced)
        /\ (pc = "done" /\ ~out_file.written) =>
              (/\ raised = "none" /\ Printed("Erro ao salvar o audio filtrado"))
        /\ pc = "raised" =>
              /\ raised = "ValueError"
              /\ ~ErrorPrinted
              /\ y_filtered = <<>> /\ ~spectrum_filtered.computed /\ ~out_file.written
              /\ \/ /\ Len(y_original) = 0
                    /\ ~spectrum_original.computed /\ design = NoDesign
                 \/ /\ Len(y_original) > 0 /\ sr <= 2 * highcut_vocal
                    /\ spectrum_original.computed /\ design.fs = sr
        /\ (raised = "none" /\ pc \in {"fft_filtered", "save", "done"}) =>
              (/\ Len(y_original) > 0 /\ sr > 2 * highcut_vocal)
        /\ raised # "none" => pc = "raised"
        /\ pc \in Terminal => ~ENABLED Next
        /\ NothingPrintedTwice

C10_Witness ==
    /\ script = "analise_freq_filtro" /\ pc = "raised" /\ raised = "ValueError"
    /\ file.native_sr = 8000 /\ Len(y_original) = 3 /\ design.fs = 8000
    /\ spectrum_original.computed /\ ~out_file.written

====
